---- MODULE Spec2Model ----
(***************************************************************************)
(* Black '76 option pricing server: the pricing engine black76_price      *)
(* (src/src/pricing/black76.py) and the tool price_option_black76         *)
(* (src/src/server.py).                                                   *)
(*                                                                         *)
(* Python floats are modelled as decimal floating-point numbers with an   *)
(* 8-digit significand, round-half-even, the exponent range of binary64   *)
(* (overflow to infinity above 10^308, flush to zero below 10^-324),      *)
(* infinities and NaN.  Zero carries no sign (Python's == does not tell   *)
(* -0.0 from 0.0).                                                        *)
(***************************************************************************)
EXTENDS Integers, Sequences, FiniteSets, TLC

(***************************************************************************)
(* float: representation                                                   *)
(***************************************************************************)
\* significands of finite non-zero floats lie in MantMin .. MantMax - 1
MantMax == 10^8
MantMin == 10^7
\* radix used to split a significand in two halves for exact products
Half == 10^4
\* largest and smallest decimal exponent of a finite non-zero float
EMax == 308
EMin == -EMax - 16

NaN == [c |-> "nan", s |-> 1, m |-> 0, e |-> 0]
Inf(s) == [c |-> "inf", s |-> s, m |-> 0, e |-> 0]
Zero == [c |-> "fin", s |-> 1, m |-> 0, e |-> 0]
\* the value s * m * 10^(e-7)
Fin(s, m, e) == [c |-> "fin", s |-> s, m |-> m, e |-> e]
\* Python's None, shaped like a float so that it compares with one
None == [c |-> "none", s |-> 1, m |-> 0, e |-> 0]

IsNaN(x) == x.c = "nan"
IsInf(x) == x.c = "inf"
IsZero(x) == x.c = "fin" /\ x.m = 0
IsFinite(x) == x.c = "fin"

Cmp(a, b) == IF a < b THEN -1 ELSE IF a > b THEN 1 ELSE 0

\* round half to even: m is the kept part, half the dropped part against 1/2
RoundHalfEven(m, half) ==
    IF half > 0 \/ (half = 0 /\ m % 2 = 1) THEN m + 1 ELSE m

\* a rounded significand in MantMin .. MantMax with its exponent, range-checked
Pack(s, m, e) ==
    LET mm == IF m = MantMax THEN MantMin ELSE m
        ee == IF m = MantMax THEN e + 1 ELSE e
    IN  IF ee > EMax THEN Inf(s)
        ELSE IF ee < EMin THEN Zero
        ELSE Fin(s, mm, ee)

\* the exact value V * 10^(e-7) of a positive integer V < MantMax
RECURSIVE NormInt(_, _, _)
NormInt(s, V, e) ==
    IF V >= MantMin THEN Pack(s, V, e) ELSE NormInt(s, V * 10, e - 1)

\* the float literal n * 10^x
Dec(n, x) ==
    IF n = 0 THEN Zero
    ELSE NormInt(IF n < 0 THEN -1 ELSE 1, IF n < 0 THEN -n ELSE n, x + 7)

(***************************************************************************)
(* float: comparison                                                       *)
(***************************************************************************)
\* -1, 0, 1 for two floats that are not NaN
Order(a, b) ==
    LET rank(x) == IF x.c = "inf" THEN x.s * 2
                   ELSE IF x.m = 0 THEN 0 ELSE x.s
    IN  IF rank(a) # rank(b) THEN Cmp(rank(a), rank(b))
        ELSE IF a.c = "inf" \/ a.m = 0 THEN 0
        ELSE IF a.e # b.e THEN a.s * Cmp(a.e, b.e)
        ELSE a.s * Cmp(a.m, b.m)

\* a <= b, a < b, a == b  (False when either is NaN)
fle(a, b) == ~IsNaN(a) /\ ~IsNaN(b) /\ Order(a, b) <= 0
flt(a, b) == ~IsNaN(a) /\ ~IsNaN(b) /\ Order(a, b) < 0
feq(a, b) == ~IsNaN(a) /\ ~IsNaN(b) /\ Order(a, b) = 0

(***************************************************************************)
(* float: arithmetic                                                       *)
(***************************************************************************)
fneg(a) == IF a.c = "fin" /\ a.m = 0 THEN Zero
           ELSE IF a.c = "nan" THEN NaN
           ELSE [a EXCEPT !.s = -a.s]

fabs(a) == IF a.c = "nan" THEN NaN ELSE [a EXCEPT !.s = 1]

\* a * b
fmul(a, b) ==
    IF IsNaN(a) \/ IsNaN(b) THEN NaN
    ELSE IF IsInf(a) \/ IsInf(b)
         THEN IF IsZero(a) \/ IsZero(b) THEN NaN ELSE Inf(a.s * b.s)
    ELSE IF a.m = 0 \/ b.m = 0 THEN Zero
    ELSE LET ah == a.m \div Half
             al == a.m % Half
             bh == b.m \div Half
             bl == b.m % Half
             mid == ah * bl + al * bh
             low == (mid % Half) * Half + al * bl
             \* a.m * b.m = Q * MantMax + R
             Q == ah * bh + mid \div Half + low \div MantMax
             R == low % MantMax
             s == a.s * b.s
         IN  IF Q >= MantMin
             THEN Pack(s, RoundHalfEven(Q, Cmp(2 * R, MantMax)), a.e + b.e + 1)
             ELSE Pack(s, RoundHalfEven(Q * 10 + R \div MantMin,
                                        Cmp(2 * (R % MantMin), MantMin)),
                       a.e + b.e)

\* n more quotient digits of r / d appended to q
RECURSIVE LongDiv(_, _, _, _)
LongDiv(r, d, n, q) ==
    IF n = 0 THEN [q |-> q, r |-> r]
    ELSE LongDiv((r * 10) % d, d, n - 1, q * 10 + (r * 10) \div d)

\* a / b under IEEE 754 (Python raises ZeroDivisionError before it divides by 0)
fdiv(a, b) ==
    IF IsNaN(a) \/ IsNaN(b) THEN NaN
    ELSE IF IsInf(a) THEN IF IsInf(b) THEN NaN ELSE Inf(a.s * b.s)
    ELSE IF IsInf(b) THEN Zero
    ELSE IF b.m = 0 THEN IF a.m = 0 THEN NaN ELSE Inf(a.s)
    ELSE IF a.m = 0 THEN Zero
    ELSE LET q0 == a.m \div b.m
             D == LongDiv(a.m % b.m, b.m, IF q0 > 0 THEN 7 ELSE 8, q0)
         IN  Pack(a.s * b.s, RoundHalfEven(D.q, Cmp(2 * D.r, b.m)),
                  IF q0 > 0 THEN a.e - b.e ELSE a.e - b.e - 1)

\* |x| + |y| for |x| >= |y| > 0, d the difference of their exponents
AddMag(s, xm, xe, ym, d) ==
    IF d > 8 THEN Fin(s, xm, xe)
    ELSE LET p == 10^d
             top == xm + ym \div p
             br == ym % p
             dg == top % 10
         IN  IF top < MantMax
             THEN Pack(s, RoundHalfEven(top, Cmp(2 * br, p)), xe)
             ELSE Pack(s, RoundHalfEven(top \div 10,
                                        IF dg > 5 THEN 1
                                        ELSE IF dg < 5 THEN -1
                                        ELSE IF br > 0 THEN 1 ELSE 0),
                       xe + 1)

\* |x| - |y| for |x| >= |y| > 0, d the difference of their exponents
SubMag(s, xm, xe, ym, d) ==
    IF d > 9 THEN Fin(s, xm, xe)
    ELSE LET p == 10^d
             bq == ym \div p
             br == ym % p
             \* |x| - |y| = (top + fr / p) * 10^(xe-7)
             top == IF br = 0 THEN xm - bq ELSE xm - bq - 1
             fr == IF br = 0 THEN 0 ELSE p - br
             p1 == 10^(d - 1)
         IN  IF top = 0 /\ fr = 0 THEN Zero
             ELSE IF top >= MantMin
                  THEN Pack(s, RoundHalfEven(top, Cmp(2 * fr, p)), xe)
             ELSE IF d <= 1 THEN NormInt(s, top * p + fr, xe - d)
             ELSE Pack(s, RoundHalfEven(top * 10 + fr \div p1,
                                        Cmp(2 * (fr % p1), p1)),
                       xe - 1)

\* a + b
fadd(a, b) ==
    IF IsNaN(a) \/ IsNaN(b) THEN NaN
    ELSE IF IsInf(a) THEN IF IsInf(b) /\ a.s # b.s THEN NaN ELSE a
    ELSE IF IsInf(b) THEN b
    ELSE IF a.m = 0 THEN b
    ELSE IF b.m = 0 THEN a
    ELSE LET swap == a.e < b.e \/ (a.e = b.e /\ a.m < b.m)
             x == IF swap THEN b ELSE a
             y == IF swap THEN a ELSE b
         IN  IF x.s = y.s
             THEN AddMag(x.s, x.m, x.e, y.m, x.e - y.e)
             ELSE SubMag(x.s, x.m, x.e, y.m, x.e - y.e)

\* a - b
fsub(a, b) == fadd(a, fneg(b))

(***************************************************************************)
(* float: the math library (math.sqrt, math.log, math.exp, math.erf)       *)
(***************************************************************************)
\* a * b = hi * MantMax + lo, exactly
Mul2(a, b) ==
    LET ah == a \div Half
        al == a % Half
        bh == b \div Half
        bl == b % Half
        mid == ah * bl + al * bh
        low == (mid % Half) * Half + al * bl
    IN  [hi |-> ah * bh + mid \div Half + low \div MantMax, lo |-> low % MantMax]

\* the largest r in lo .. hi - 1 with r * r <= Nhi * MantMax + Nlo
RECURSIVE ISqrt(_, _, _, _)
ISqrt(Nhi, Nlo, lo, hi) ==
    IF hi - lo <= 1 THEN lo
    ELSE LET mid == (lo + hi) \div 2
             sq == Mul2(mid, mid)
         IN  IF sq.hi < Nhi \/ (sq.hi = Nhi /\ sq.lo <= Nlo)
             THEN ISqrt(Nhi, Nlo, mid, hi)
             ELSE ISqrt(Nhi, Nlo, lo, mid)

\* the correctly rounded square root of x >= 0
\* r = floor(sqrt(N)) for N = Nhi * MantMax + Nlo, rounded to nearest: N - r * r,
\* at most 2 * r, tells which side of r + 1/2 the root lies
SqrtRound(Nhi, Nlo, r, sq, e) ==
    Pack(1, IF (Nhi - sq.hi) * MantMax + (Nlo - sq.lo) > r THEN r + 1 ELSE r, e)
SqrtFloor(Nhi, Nlo, r, e) == SqrtRound(Nhi, Nlo, r, Mul2(r, r), e)
SqrtOf(Nhi, Nlo, e) == SqrtFloor(Nhi, Nlo, ISqrt(Nhi, Nlo, 3 * 10^6, MantMax), e)

fsqrt(x) ==
    IF IsNaN(x) THEN NaN
    ELSE IF IsInf(x) THEN x
    ELSE IF x.m = 0 THEN Zero
    ELSE IF x.e % 2 = 0
         THEN SqrtOf(x.m \div 10, (x.m % 10) * MantMin, x.e \div 2)
         ELSE SqrtOf(x.m, 0, (x.e - 1) \div 2)

\* the integer nearest to x, for |x| < MantMax
ToInt(x) ==
    IF x.m = 0 \/ x.e < -1 THEN 0
    ELSE IF x.e = -1 THEN x.s * RoundHalfEven(0, Cmp(2 * x.m, MantMax))
    ELSE LET p == 10^(7 - x.e)
         IN  x.s * RoundHalfEven(x.m \div p, Cmp(2 * (x.m % p), p))

LN10 == Dec(23025851, -7)
\* ln 10 in two parts: k * LN10_HI is exact for every exponent k
LN10_HI == Dec(23025, -4)
LN10_LO == Dec(85092994, -12)

\* z + z^3/3 + z^5/5 + ... : pw is z^(2n+1), acc the sum of the terms before it
RECURSIVE AtanhSeries(_, _, _, _)
AtanhSeries(z2, pw, n, acc) ==
    LET new == fadd(acc, fdiv(pw, Dec(2 * n + 1, 0)))
    IN  IF new = acc THEN acc
        ELSE AtanhSeries(z2, fmul(pw, z2), n + 1, new)

\* ln x for finite x > 0: x = y * 10^k with y in [0.316, 3.16),
\* ln y = 2 atanh((y - 1) / (y + 1))
Atanh(z) == AtanhSeries(fmul(z, z), z, 0, Zero)
LogScaled(y, k) ==
    fadd(fmul(Dec(k, 0), LN10),
         fmul(Dec(2, 0), Atanh(fdiv(fsub(y, Dec(1, 0)), fadd(y, Dec(1, 0))))))
flog(x) ==
    IF x.m >= 31622777 THEN LogScaled(Fin(1, x.m, -1), x.e + 1)
    ELSE LogScaled(Fin(1, x.m, 0), x.e)

\* 1 + r + r^2/2! + ... : term is r^n/n!, acc the sum of the terms before it
RECURSIVE ExpSeries(_, _, _, _)
ExpSeries(r, term, n, acc) ==
    LET new == fadd(acc, term)
    IN  IF new = acc THEN acc
        ELSE ExpSeries(r, fdiv(fmul(term, r), Dec(n + 1, 0)), n + 1, new)

\* y * 10^k for finite y > 0
Scale(y, k) == Pack(1, y.m, y.e + k)
ExpOf(r) == ExpSeries(r, Dec(1, 0), 0, Zero)
ExpReduced(x, k) ==
    Scale(ExpOf(fsub(fsub(x, fmul(Dec(k, 0), LN10_HI)), fmul(Dec(k, 0), LN10_LO))), k)

\* e^x for finite x: x = k ln 10 + r with |r| <= (ln 10) / 2
fexp(x) ==
    IF IsNaN(x) THEN NaN
    ELSE IF IsInf(x) \/ (x.m # 0 /\ x.e >= 3)
         THEN IF x.s = 1 THEN Inf(1) ELSE Zero
    ELSE ExpReduced(x, ToInt(fdiv(x, LN10)))

\* 1 + 2x^2/3 + (2x^2)^2/(3*5) + ... : the series of erf(x) sqrt(pi) e^(x^2) / (2x)
RECURSIVE ErfSeries(_, _, _, _)
ErfSeries(x2, term, n, acc) ==
    LET new == fadd(acc, term)
    IN  IF new = acc THEN acc
        ELSE ErfSeries(x2, fdiv(fmul(term, x2), Dec(2 * n + 3, 0)), n + 1, new)

TWO_OVER_SQRT_PI == Dec(11283792, -7)

\* x * x - fmul(x, x), exactly, for finite x # 0
SquareErr(x) ==
    LET P == Mul2(x.m, x.m)
        wide == P.hi >= MantMin
        unit == IF wide THEN MantMax ELSE MantMin
        M == IF wide THEN P.hi ELSE P.hi * 10 + P.lo \div MantMin
        rest == IF wide THEN P.lo ELSE P.lo % MantMin
        Mr == RoundHalfEven(M, Cmp(2 * rest, unit))
    IN  Dec(rest - (Mr - M) * unit, 2 * x.e - 14)

\* x + (1/2) / (x + (2/2) / (x + ... (n/2) / x)), the continued fraction of
\* e^(-x*x) / (sqrt(pi) erfc(x)), from the innermost level k = n outwards:
\* t is the value of the levels below k
RECURSIVE ErfcFraction(_, _, _)
ErfcFraction(x, k, t) ==
    IF k = 0 \/ IsNaN(t) THEN t
    ELSE ErfcFraction(x, k - 1, fadd(x, fdiv(Dec(5 * k, -1), t)))

ONE_OVER_SQRT_PI == Dec(56418958, -8)

\* erf(x) for finite x >= 0; e^(-x*x) is taken from x*x in two parts.  The
\* series below 2, 1 - erfc(x) by the continued fraction from 2 on, 1 from 6 on.
ExpNegSquare(x) == fmul(fexp(fneg(fmul(x, x))), fsub(Dec(1, 0), SquareErr(x)))
ErfFrom(x, ex2) ==
    IF flt(x, Dec(2, 0))
    THEN fmul(fmul(fmul(TWO_OVER_SQRT_PI, x), ex2),
              ErfSeries(fmul(Dec(2, 0), fmul(x, x)), Dec(1, 0), 0, Zero))
    ELSE fsub(Dec(1, 0), fdiv(fmul(ONE_OVER_SQRT_PI, ex2), ErfcFraction(x, 20, x)))
AtMostOne(v) == IF fle(Dec(1, 0), v) THEN Dec(1, 0) ELSE v
ErfPos(x) ==
    IF x.m = 0 THEN Zero
    ELSE IF fle(Dec(6, 0), x) THEN Dec(1, 0)
    ELSE AtMostOne(ErfFrom(x, ExpNegSquare(x)))

\* erf(x): odd, erf(+-inf) = +-1
WithSign(s, v) == IF s = 1 THEN v ELSE fneg(v)
ferf(x) ==
    IF IsNaN(x) THEN NaN
    ELSE IF IsInf(x) THEN Dec(x.s, 0)
    ELSE WithSign(x.s, ErfPos(fabs(x)))

\* round(x, ndigits): the multiple of 10^-ndigits nearest to x, half to even
round(x, ndigits) ==
    IF ~IsFinite(x) \/ x.m = 0 \/ x.e - 7 >= -ndigits THEN x
    ELSE LET k == 7 - x.e - ndigits
             p == 10^k
             t == IF k > 8 THEN 0
                  ELSE RoundHalfEven(x.m \div p, Cmp(2 * (x.m % p), p))
         IN  IF t = 0 THEN Zero ELSE NormInt(x.s, t, 7 - ndigits)

(***************************************************************************)
(* Python values: exceptions, strings, the math module                     *)
(***************************************************************************)
\* str values are sequences of one-character strings
UPPER == <<"A", "B", "C", "D", "E", "F", "G", "H", "I", "J", "K", "L", "M",
           "N", "O", "P", "Q", "R", "S", "T", "U", "V", "W", "X", "Y", "Z">>
LOWER == <<"a", "b", "c", "d", "e", "f", "g", "h", "i", "j", "k", "l", "m",
           "n", "o", "p", "q", "r", "s", "t", "u", "v", "w", "x", "y", "z">>

\* str.lower() and str.upper()
lower(str) ==
    [i \in DOMAIN str |->
        IF \E j \in DOMAIN UPPER : UPPER[j] = str[i]
        THEN LOWER[CHOOSE j \in DOMAIN UPPER : UPPER[j] = str[i]]
        ELSE str[i]]
upper(str) ==
    [i \in DOMAIN str |->
        IF \E j \in DOMAIN LOWER : LOWER[j] = str[i]
        THEN UPPER[CHOOSE j \in DOMAIN LOWER : LOWER[j] = str[i]]
        ELSE str[i]]

\* SPXOptionResult(price, delta, gamma, vega), a frozen dataclass
SPXOptionResult(price, delta, gamma, vega) ==
    [price |-> price, delta |-> delta, gamma |-> gamma, vega |-> vega]
NoResult == SPXOptionResult(None, None, None, None)

\* how a call ends: it returns a value, or raises exc(msg) about the float `got`
\* or the string `gots`
Return(result) ==
    [kind |-> "return", exc |-> "", msg |-> "", got |-> None, gots |-> <<>>,
     result |-> result]
Raise(exc, msg, got, gots) ==
    [kind |-> "raise", exc |-> exc, msg |-> msg, got |-> got, gots |-> gots,
     result |-> NoResult]

\* math.pi, math.sqrt(2.0), math.sqrt(2.0 * math.pi)
math_pi == Dec(31415927, -7)
SQRT_2 == fsqrt(Dec(2, 0))
SQRT_2PI == fsqrt(fmul(Dec(2, 0), math_pi))

\* math.log(x) for x > 0 or NaN (x <= 0 raises ValueError: the caller's guard)
math_log(x) == IF IsNaN(x) THEN NaN ELSE IF IsInf(x) THEN x ELSE flog(x)

(***************************************************************************)
(* src/src/pricing/black76.py                                              *)
(***************************************************************************)
\* class OptionType(str, Enum): the members' values
CALL == <<"c", "a", "l", "l">>
PUT == <<"p", "u", "t">>

\* an option_type argument: a plain str, or a member of OptionType (a str too)
Str(v) == [tag |-> "str", v |-> v]
Member(v) == [tag |-> "OptionType", v |-> v]

\* OptionType(value): the member with that value, else ValueError
OptionType(value) ==
    IF value \in {CALL, PUT} THEN Return(Member(value))
    ELSE Raise("ValueError", "is not a valid OptionType", None, value)

norm_cdf(x) == fmul(Dec(5, -1), fadd(Dec(1, 0), ferf(fdiv(x, SQRT_2))))

norm_pdf(x) == fdiv(fexp(fmul(fmul(Dec(-5, -1), x), x)), SQRT_2PI)

\* Price with the put premium taken at d_1, d_2 instead of -d_1, -d_2
PriceUnmirrored(forward_price, strike, df, option_type, d_1, d_2) ==
    IF option_type = Member(CALL)
    THEN fmul(df, fsub(fmul(forward_price, norm_cdf(d_1)),
                       fmul(strike, norm_cdf(d_2))))
    ELSE fmul(df, fsub(fmul(strike, norm_cdf(d_2)),
                       fmul(forward_price, norm_cdf(d_1))))

\* lines 105-106 and 108-109: the premium
Price(forward_price, strike, df, option_type, d_1, d_2) ==
    IF option_type = Member(CALL)
    THEN fmul(df, fsub(fmul(forward_price, norm_cdf(d_1)),
                       fmul(strike, norm_cdf(d_2))))
    ELSE fmul(df, fsub(fmul(strike, norm_cdf(fneg(d_2))),
                       fmul(forward_price, norm_cdf(fneg(d_1)))))

\* lines 107 and 110: the delta
Delta(df, option_type, d_1) ==
    IF option_type = Member(CALL)
    THEN fmul(df, norm_cdf(d_1))
    ELSE fmul(fneg(df), norm_cdf(fneg(d_1)))

\* line 116: vega
Vega(forward_price, df, pdf_d1, sqrt_t) ==
    fdiv(fmul(fmul(fmul(df, forward_price), pdf_d1), sqrt_t), Dec(100, 0))

\* line 99 from its operands: ratio is forward_price / strike, vol2 is
\* implied_volatility ** 2, denom is implied_volatility * sqrt_t.  math.log
\* raises ValueError at 0, ** raises OverflowError, / raises ZeroDivisionError.
D1From(dcf, implied_volatility, ratio, vol2, denom) ==
    IF fle(ratio, Zero)
    THEN Raise("ValueError", "math domain error", None, <<>>)
    ELSE IF IsFinite(implied_volatility) /\ IsInf(vol2)
    THEN Raise("OverflowError", "(34, 'Numerical result out of range')", None, <<>>)
    ELSE IF IsZero(denom)
    THEN Raise("ZeroDivisionError", "float division by zero", None, <<>>)
    ELSE Return(fdiv(fadd(math_log(ratio), fmul(fdiv(vol2, Dec(2, 0)), dcf)), denom))

\* line 99: d_1, or the exception raised
Line99(forward_price, strike, dcf, implied_volatility, sqrt_t) ==
    D1From(dcf, implied_volatility, fdiv(forward_price, strike),
           fmul(implied_volatility, implied_volatility),
           fmul(implied_volatility, sqrt_t))

\* line 100: d_2
Line100(implied_volatility, sqrt_t, d_1) == fsub(d_1, fmul(implied_volatility, sqrt_t))

\* line 113 from its divisor gden
GammaFrom(df, pdf_d1, gden) ==
    IF IsZero(gden)
    THEN Raise("ZeroDivisionError", "float division by zero", None, <<>>)
    ELSE Return(fdiv(fmul(df, pdf_d1), gden))

\* line 113: gamma, or the exception raised
Line113(forward_price, df, implied_volatility, sqrt_t, pdf_d1) ==
    GammaFrom(df, pdf_d1, fmul(fmul(forward_price, implied_volatility), sqrt_t))

\* lines 116-123 with price, delta and the outcome of line 113 known
FromGamma(forward_price, df, sqrt_t, pdf_d1, price, delta, line113) ==
    IF line113.kind = "raise" THEN line113
    ELSE Return(SPXOptionResult(price, delta, line113.result,
                                Vega(forward_price, df, pdf_d1, sqrt_t)))

\* FromPdf with the gamma of a put taken at -df, as its delta is
FromPdfSignedGamma(forward_price, strike, df, implied_volatility, option_type, sqrt_t, d_1, d_2, pdf_d1) ==
    FromGamma(forward_price, df, sqrt_t, pdf_d1,
              Price(forward_price, strike, df, option_type, d_1, d_2),
              Delta(df, option_type, d_1),
              Line113(forward_price, IF option_type = Member(CALL) THEN df ELSE fneg(df),
                      implied_volatility, sqrt_t, pdf_d1))

\* lines 105-123 with d_1, d_2 and pdf_d1 known
FromPdf(forward_price, strike, df, implied_volatility, option_type, sqrt_t, d_1, d_2, pdf_d1) ==
    FromGamma(forward_price, df, sqrt_t, pdf_d1,
              Price(forward_price, strike, df, option_type, d_1, d_2),
              Delta(df, option_type, d_1),
              Line113(forward_price, df, implied_volatility, sqrt_t, pdf_d1))

\* lines 100-123 with the outcome of line 99 known
FromD1(forward_price, strike, df, implied_volatility, option_type, sqrt_t, line99) ==
    IF line99.kind = "raise" THEN line99
    ELSE FromPdf(forward_price, strike, df, implied_volatility, option_type, sqrt_t,
                 line99.result,
                 Line100(implied_volatility, sqrt_t, line99.result),
                 norm_pdf(line99.result))

\* lines 99-123 with sqrt_t known
FromSqrt(forward_price, strike, dcf, df, implied_volatility, option_type, sqrt_t) ==
    FromD1(forward_price, strike, df, implied_volatility, option_type, sqrt_t,
           Line99(forward_price, strike, dcf, implied_volatility, sqrt_t))

\* lines 97-123 of black76_price: the computation after validation, option_type
\* a member of OptionType
Compute(forward_price, strike, dcf, df, implied_volatility, option_type) ==
    FromSqrt(forward_price, strike, dcf, df, implied_volatility, option_type,
             fsqrt(dcf))

\* lines 94-95 done: resolved is what OptionType(option_type.lower()) gave
Resolved(forward_price, strike, dcf, df, implied_volatility, resolved) ==
    IF resolved.kind = "raise" THEN resolved
    ELSE Compute(forward_price, strike, dcf, df, implied_volatility, resolved.result)

\* NotPositive with < for <=: zero is let through
Negative(x) == flt(x, Zero)

\* lines 85, 87, 89, 91: the test x <= 0
NotPositive(x) == fle(x, Zero)

\* Resolve without the case normalisation
ResolveExact(option_type) == OptionType(option_type.v)

\* lines 94-95: OptionType(option_type.lower()); a member of OptionType is a str
Resolve(option_type) == OptionType(lower(option_type.v))

\* lines 85-92: the ValueError of the first test that fails, or nothing (None)
Validate(forward_price, strike, dcf, implied_volatility) ==
    IF NotPositive(forward_price)
    THEN Raise("ValueError", "Forward must be positive, got", forward_price, <<>>)
    ELSE IF NotPositive(strike)
    THEN Raise("ValueError", "Strike must be positive, got", strike, <<>>)
    ELSE IF NotPositive(dcf)
    THEN Raise("ValueError", "DCF must be positive, got", dcf, <<>>)
    ELSE IF NotPositive(implied_volatility)
    THEN Raise("ValueError", "Volatility must be positive, got", implied_volatility, <<>>)
    ELSE Return(None)

\* lines 94-123 with the outcome of the validation known
Validated(forward_price, strike, dcf, df, implied_volatility, option_type, valid) ==
    IF valid.kind = "raise" THEN valid
    ELSE Resolved(forward_price, strike, dcf, df, implied_volatility,
                  Resolve(option_type))

\* black76_price(forward_price, strike, dcf, df, implied_volatility, option_type)
black76_price(forward_price, strike, dcf, df, implied_volatility, option_type) ==
    Validated(forward_price, strike, dcf, df, implied_volatility, option_type,
              Validate(forward_price, strike, dcf, implied_volatility))

(***************************************************************************)
(* src/src/server.py                                                       *)
(***************************************************************************)
\* str(e) of an exception: its message with the value it names
StrOf(e) == [msg |-> e.msg, got |-> e.got, gots |-> e.gots]

\* Handler without the clause for Exception
HandlerValueErrorOnly(e) ==
    IF e.exc = "ValueError"
    THEN Return([status |-> "error", message |-> StrOf(e)])
    ELSE e

\* the except clauses of price_option_black76: ValueError, then Exception
\* (every exception the engine raises is an Exception)
Handler(e) ==
    IF e.exc = "ValueError"
    THEN Return([status |-> "error", message |-> StrOf(e)])
    ELSE IF e.exc \in {"OverflowError", "ZeroDivisionError"}
    THEN Return([status |-> "error", message |-> StrOf(e)])
    ELSE e

\* Success with the premium kept to 4 decimals
SuccessFineUnits(forward_price, strike, option_type, result) ==
    [status |-> "success",
     instrument |-> "Option",
     model |-> "Black '76",
     type |-> upper(option_type),
     inputs |-> [forward |-> forward_price, strike |-> strike],
     pricing |-> [premium |-> round(result.price, 4)],
     greeks |-> [delta |-> round(result.delta, 4),
                 gamma |-> round(result.gamma, 6),
                 vega_per_1pct_usd |-> round(fmul(result.vega, Dec(100, 0)), 2)]]

\* the success dictionary built from the engine's result
Success(forward_price, strike, option_type, result) ==
    [status |-> "success",
     instrument |-> "Option",
     model |-> "Black '76",
     type |-> upper(option_type),
     inputs |-> [forward |-> forward_price, strike |-> strike],
     pricing |-> [premium |-> round(result.price, 2)],
     greeks |-> [delta |-> round(result.delta, 4),
                 gamma |-> round(result.gamma, 6),
                 vega_per_1pct_usd |-> round(fmul(result.vega, Dec(100, 0)), 2)]]

\* lines 69-94: the response to what the engine did
Response(forward_price, strike, option_type, result) ==
    IF result.kind = "raise" THEN Handler(result)
    ELSE Return(Success(forward_price, strike, option_type, result.result))

\* line 68 with OptionType(option_type) evaluated: member
WithMember(forward_price, strike, dcf, df, implied_volatility, option_type, member) ==
    IF member.kind = "raise" THEN Handler(member)
    ELSE Response(forward_price, strike, option_type,
                  black76_price(forward_price, strike, dcf, df, implied_volatility,
                                member.result))

\* the body of price_option_black76; option_type is a str
price_option_black76(forward_price, strike, dcf, df, implied_volatility, option_type) ==
    WithMember(forward_price, strike, dcf, df, implied_volatility, option_type,
               OptionType(option_type))

\* the Field constraints of the tool's parameters, checked before the body runs:
\* gt=0 on forward_price, strike, df, implied_volatility; pattern "^(call|put)$"
FieldsValid(forward_price, strike, dcf, df, implied_volatility, option_type) ==
    /\ flt(Zero, forward_price)
    /\ flt(Zero, strike)
    /\ flt(Zero, df)
    /\ flt(Zero, implied_volatility)
    /\ option_type \in {CALL, PUT}

\* a call of the tool through the server: rejected by the parameter constraints,
\* or the body's outcome
CallTool(forward_price, strike, dcf, df, implied_volatility, option_type) ==
    IF FieldsValid(forward_price, strike, dcf, df, implied_volatility, option_type)
    THEN price_option_black76(forward_price, strike, dcf, df, implied_volatility,
                              option_type)
    ELSE [kind |-> "rejected"]

(***************************************************************************)
(* The inputs                                                              *)
(***************************************************************************)
Forwards == {Dec(0, 0), Dec(1, -200), Dec(90, 0), Dec(100, 0), Dec(5500, 0)}
Strikes == {Dec(-5, 0), Dec(100, 0), Dec(5000, 0), Dec(1, 200)}
Dcfs == {Dec(0, 0), Dec(25, -2), Dec(1, 0), NaN}
Dfs == {Dec(-1, 0), Dec(0, 0), Dec(98, -2)}
Vols == {Dec(-1, -1), Dec(1, -200), Dec(2, -1), Dec(1, 200)}
Strings == {CALL, PUT, <<"C", "A", "L", "L">>, <<"C", "a", "l", "l">>,
            <<"P", "u", "t">>,
            <<"s", "t", "r", "a", "d", "d", "l", "e">>, <<>>}
OptionTypes == {Str(v) : v \in Strings} \cup {Member(CALL), Member(PUT)}

Args(types) ==
    [forward_price : Forwards, strike : Strikes, dcf : Dcfs, df : Dfs,
     implied_volatility : Vols, option_type : types]

(***************************************************************************)
(* The server: calls of the engine and of the tool, one at a time, and     *)
(* concurrent invocations of the engine, each advancing line by line        *)
(***************************************************************************)
\* the number of concurrent callers of the engine
NumCallers == 2
Callers == 1 .. NumCallers

VARIABLES
    op,        \* "idle", or the operation called: "black76_price", "price_option_black76"
    args,      \* its arguments
    outcome,   \* how it ended
    pc,        \* per concurrent caller: "idle", the lines its invocation is at, "done"
    called,    \* per concurrent caller: the arguments it passed
    returned,  \* per concurrent caller: the outcome it got
    frame      \* the parameters and local variables of the invocations

vars == <<op, args, outcome, pc, called, returned, frame>>

NoArgs == [forward_price |-> None, strike |-> None, dcf |-> None, df |-> None,
           implied_volatility |-> None, option_type |-> Str(<<>>)]
NoOutcome == [kind |-> "none"]

\* a frame before the call binds its parameters
NoFrame ==
    [forward_price |-> None, strike |-> None, dcf |-> None, df |-> None,
     implied_volatility |-> None, option_type |-> Str(<<>>),
     sqrt_t |-> None, d_1 |-> None, d_2 |-> None, pdf_d1 |-> None,
     price |-> None, delta |-> None, gamma |-> None]

Init ==
    /\ op = "idle"
    /\ args = NoArgs
    /\ outcome = NoOutcome
    /\ pc = [c \in Callers |-> "idle"]
    /\ called = [c \in Callers |-> NoArgs]
    /\ returned = [c \in Callers |-> NoOutcome]
    /\ frame = [c \in Callers |-> NoFrame]

\* the called operation o ends with result on arguments a
Respond(o, a, result) ==
    /\ op' = o
    /\ args' = a
    /\ outcome' = result
    /\ UNCHANGED <<pc, called, returned, frame>>

\* a direct call of the engine
CallEngine ==
    /\ op = "idle"
    /\ \E a \in Args(OptionTypes) :
        Respond("black76_price", a,
                black76_price(a.forward_price, a.strike, a.dcf, a.df,
                              a.implied_volatility, a.option_type))

\* a call of the tool through the server
CallRemote ==
    /\ op = "idle"
    /\ \E a \in Args(Strings) :
        Respond("price_option_black76", a,
                CallTool(a.forward_price, a.strike, a.dcf, a.df,
                         a.implied_volatility, a.option_type))

\* the caller has its answer; the server keeps nothing of the call
Deliver ==
    /\ op # "idle"
    /\ op' = "idle"
    /\ args' = NoArgs
    /\ outcome' = NoOutcome
    /\ UNCHANGED <<pc, called, returned, frame>>

Next == CallEngine \/ CallRemote \/ Deliver

Spec == Init /\ [][Next]_vars

\* the arguments of the concurrent invocations
ConcArgs ==
    {[forward_price |-> Dec(90, 0), strike |-> Dec(100, 0), dcf |-> Dec(25, -2),
      df |-> Dec(98, -2), implied_volatility |-> Dec(2, -1),
      option_type |-> Str(<<"C", "a", "l", "l">>)],
     [forward_price |-> Dec(5500, 0), strike |-> Dec(5000, 0), dcf |-> Dec(1, 0),
      df |-> Dec(98, -2), implied_volatility |-> Dec(2, -1),
      option_type |-> Member(PUT)],
     [forward_price |-> Dec(0, 0), strike |-> Dec(100, 0), dcf |-> Dec(1, 0),
      df |-> Dec(98, -2), implied_volatility |-> Dec(2, -1),
      option_type |-> Str(CALL)],
     [forward_price |-> Dec(1, -200), strike |-> Dec(1, 200), dcf |-> Dec(1, 0),
      df |-> Dec(98, -2), implied_volatility |-> Dec(2, -1),
      option_type |-> Str(CALL)]}

\* Local with one frame for all invocations, as module-level variables would be
SharedFrame(c) == 1

\* the frame of caller c's invocation: a call of a Python function has a frame
\* of its own for its parameters and local variables
Local(c) == c

Frame(c) == frame[Local(c)]

\* caller c's invocation ends: it returns or raises, and its frame is gone
Finish(c, result) ==
    /\ pc' = [pc EXCEPT ![c] = "done"]
    /\ returned' = [returned EXCEPT ![c] = result]
    /\ frame' = [frame EXCEPT ![Local(c)] = NoFrame]
    /\ UNCHANGED <<op, args, outcome, called>>

\* caller c's invocation runs a line: it raises what step raised, or binds the
\* local variable var to the value of step and goes on at next
Run(c, next, var, step) ==
    IF step.kind = "raise" THEN Finish(c, step)
    ELSE /\ pc' = [pc EXCEPT ![c] = next]
         /\ frame' = [frame EXCEPT ![Local(c)] = [Frame(c) EXCEPT ![var] = step.result]]
         /\ UNCHANGED <<op, args, outcome, called, returned>>

\* caller c calls black76_price: the parameters are bound in a new frame
Invoke(c) ==
    /\ pc[c] = "idle"
    /\ \E a \in ConcArgs :
        /\ called' = [called EXCEPT ![c] = a]
        /\ frame' = [frame EXCEPT ![Local(c)] =
                        [NoFrame EXCEPT !.forward_price = a.forward_price,
                                        !.strike = a.strike,
                                        !.dcf = a.dcf,
                                        !.df = a.df,
                                        !.implied_volatility = a.implied_volatility,
                                        !.option_type = a.option_type]]
    /\ pc' = [pc EXCEPT ![c] = "line85"]
    /\ UNCHANGED <<op, args, outcome, returned>>

\* caller c's invocation passes the tests of the validation or raises what
\* valid raised
Check(c, valid) ==
    IF valid.kind = "raise" THEN Finish(c, valid)
    ELSE /\ pc' = [pc EXCEPT ![c] = "line94"]
         /\ UNCHANGED <<op, args, outcome, called, returned, frame>>

\* lines 85-92
At85(c) ==
    /\ pc[c] = "line85"
    /\ Check(c, Validate(Frame(c).forward_price, Frame(c).strike, Frame(c).dcf,
                         Frame(c).implied_volatility))

\* lines 94-95
At94(c) ==
    /\ pc[c] = "line94"
    /\ Run(c, "line98", "option_type", Resolve(Frame(c).option_type))

\* line 98
At98(c) ==
    /\ pc[c] = "line98"
    /\ Run(c, "line99", "sqrt_t", Return(fsqrt(Frame(c).dcf)))

\* line 99
At99(c) ==
    /\ pc[c] = "line99"
    /\ Run(c, "line100", "d_1",
           Line99(Frame(c).forward_price, Frame(c).strike, Frame(c).dcf,
                  Frame(c).implied_volatility, Frame(c).sqrt_t))

\* line 100
At100(c) ==
    /\ pc[c] = "line100"
    /\ Run(c, "line102", "d_2",
           Return(Line100(Frame(c).implied_volatility, Frame(c).sqrt_t, Frame(c).d_1)))

\* line 102
At102(c) ==
    /\ pc[c] = "line102"
    /\ Run(c, "line105", "pdf_d1", Return(norm_pdf(Frame(c).d_1)))

\* lines 105-106 and 108-109
At105(c) ==
    /\ pc[c] = "line105"
    /\ Run(c, "line107", "price",
           Return(Price(Frame(c).forward_price, Frame(c).strike, Frame(c).df,
                        Frame(c).option_type, Frame(c).d_1, Frame(c).d_2)))

\* lines 107 and 110
At107(c) ==
    /\ pc[c] = "line107"
    /\ Run(c, "line113", "delta",
           Return(Delta(Frame(c).df, Frame(c).option_type, Frame(c).d_1)))

\* line 113
At113(c) ==
    /\ pc[c] = "line113"
    /\ Run(c, "line116", "gamma",
           Line113(Frame(c).forward_price, Frame(c).df, Frame(c).implied_volatility,
                   Frame(c).sqrt_t, Frame(c).pdf_d1))

\* lines 116-123
At116(c) ==
    /\ pc[c] = "line116"
    /\ Finish(c, Return(SPXOptionResult(Frame(c).price, Frame(c).delta, Frame(c).gamma,
                                        Vega(Frame(c).forward_price, Frame(c).df,
                                             Frame(c).pdf_d1, Frame(c).sqrt_t))))

\* caller c has the outcome of its call
Receive(c) ==
    /\ pc[c] = "done"
    /\ pc' = [pc EXCEPT ![c] = "idle"]
    /\ called' = [called EXCEPT ![c] = NoArgs]
    /\ returned' = [returned EXCEPT ![c] = NoOutcome]
    /\ UNCHANGED <<op, args, outcome, frame>>

NextConc ==
    \E c \in Callers :
        \/ Invoke(c)
        \/ At85(c)
        \/ At94(c)
        \/ At98(c)
        \/ At99(c)
        \/ At100(c)
        \/ At102(c)
        \/ At105(c)
        \/ At107(c)
        \/ At113(c)
        \/ At116(c)
        \/ Receive(c)

SpecConc == Init /\ [][NextConc]_vars

(***************************************************************************)
(* Properties                                                              *)
(***************************************************************************)
EngineCalled == op = "black76_price"
ToolCalled == op = "price_option_black76"

\* the numeric preconditions of the engine, in the order it tests them, each with
\* the description of its failure
Preconditions ==
    <<[value |-> args.forward_price, msg |-> "Forward must be positive, got"],
      [value |-> args.strike, msg |-> "Strike must be positive, got"],
      [value |-> args.dcf, msg |-> "DCF must be positive, got"],
      [value |-> args.implied_volatility, msg |-> "Volatility must be positive, got"]>>

\* C1: a call of black76_price with forward_price <= 0, strike <= 0, dcf <= 0 or
\* implied_volatility <= 0 raises ValueError, the message naming a violating
\* parameter (the first in the order of the tests) with its value, and returns
\* no result.
C1_NonPositiveRejected ==
    EngineCalled =>
        \A i \in DOMAIN Preconditions :
            (/\ fle(Preconditions[i].value, Zero)
             /\ \A j \in 1 .. i - 1 : ~fle(Preconditions[j].value, Zero))
            => outcome = Raise("ValueError", Preconditions[i].msg,
                               Preconditions[i].value, <<>>)

\* a call with dcf = 0 and a positive forward and strike was refused for its dcf
C1_Witness ==
    /\ EngineCalled
    /\ flt(Zero, args.forward_price)
    /\ flt(Zero, args.strike)
    /\ IsZero(args.dcf)
    /\ outcome.kind = "raise"
    /\ outcome.msg = "DCF must be positive, got"
    /\ outcome.got = args.dcf

\* C2: a call of black76_price with df <= 0 raises ValueError and returns no
\* result.
C2_DiscountFactorRejected ==
    (EngineCalled /\ fle(args.df, Zero)) =>
        (outcome.kind = "raise" /\ outcome.exc = "ValueError")

\* the arguments of a tool call are valid but for the case of option_type
ValidButForCase ==
    /\ flt(Zero, args.forward_price) /\ IsFinite(args.forward_price)
    /\ flt(Zero, args.strike) /\ IsFinite(args.strike)
    /\ flt(Zero, args.dcf) /\ IsFinite(args.dcf)
    /\ flt(Zero, args.df) /\ IsFinite(args.df)
    /\ flt(Zero, args.implied_volatility) /\ IsFinite(args.implied_volatility)
    /\ lower(args.option_type) \in {CALL, PUT}

\* C3: a call of price_option_black76 whose option_type is any case variant of
\* "call" or "put", its other arguments valid, gets a success response or the
\* error response of a fault of the computation: it is not refused for its
\* option_type.
C3_CaseInsensitive ==
    (ToolCalled /\ ValidButForCase) =>
        /\ outcome.kind = "return"
        /\ \/ outcome.result.status = "success"
           \/ outcome.result.message.gots = <<>>

\* the engine's outcome on the numeric arguments of the call for the member m
EngineOn(m) ==
    black76_price(args.forward_price, args.strike, args.dcf, args.df,
                  args.implied_volatility, Member(m))

\* what the engine raised is what the error record describes
Converted(e) ==
    e.kind = "raise" => outcome = Return([status |-> "error", message |-> StrOf(e)])

\* C4: a call of price_option_black76 that reaches the body returns a success
\* record or an error record with a message; no exception leaves the body, and
\* an exception of the engine becomes the error record.
C4_NoErrorEscapes ==
    (ToolCalled /\ outcome.kind # "rejected") =>
        /\ outcome.kind = "return"
        /\ \/ outcome.result.status = "success"
           \/ /\ outcome.result.status = "error"
              /\ outcome.result.message.msg # ""
        /\ Converted(EngineOn(args.option_type))

\* a tool call with dcf = 0 got the engine's ValueError as an error record
C4_Witness ==
    /\ ToolCalled
    /\ IsZero(args.dcf)
    /\ outcome.kind = "return"
    /\ outcome.result.status = "error"
    /\ outcome.result.message.msg = "DCF must be positive, got"

\* the engine's tests of lines 85-92 let the arguments through
PassedValidation ==
    \A i \in DOMAIN Preconditions : ~fle(Preconditions[i].value, Zero)

\* the engine's computation on the arguments of the call for the member m
ComputeFor(m) ==
    Compute(args.forward_price, args.strike, args.dcf, args.df,
            args.implied_volatility, Member(m))

\* C5: in black76_price a str option type is resolved after lower-casing it:
\* a case variant of "call" is priced as CALL, one of "put" as PUT, and any other
\* str raises ValueError instead of being priced.
C5_StringResolved ==
    (EngineCalled /\ PassedValidation /\ args.option_type.tag = "str") =>
        IF lower(args.option_type.v) \in {CALL, PUT}
        THEN outcome = ComputeFor(lower(args.option_type.v))
        ELSE /\ outcome.kind = "raise"
             /\ outcome.exc = "ValueError"
             /\ outcome.gots = lower(args.option_type.v)
             /\ outcome.result = NoResult

\* the engine priced the str "Put"
C5_Witness ==
    /\ EngineCalled
    /\ args.option_type = Str(<<"P", "u", "t">>)
    /\ outcome.kind = "return"
    /\ outcome.result.delta.s = -1

\* every field of a result is a float
Populated(result) ==
    \A f \in {"price", "delta", "gamma", "vega"} : result[f].c \in {"fin", "inf", "nan"}

\* C6: a call of black76_price whose arguments pass its validation, the option
\* type one it resolves, returns a result with every field populated.
C6_NoArithmeticFault ==
    (EngineCalled /\ PassedValidation /\ lower(args.option_type.v) \in {CALL, PUT}) =>
        (outcome.kind = "return" /\ Populated(outcome.result))

\* the outcomes a and b are results with the same gamma and the same vega
SameGammaVega(a, b) ==
    /\ a.kind = "return"
    /\ b.kind = "return"
    /\ a.result.gamma = b.result.gamma
    /\ a.result.vega = b.result.vega

\* the option type other than the one of the call
OtherType == IF lower(args.option_type.v) = CALL THEN PUT ELSE CALL

\* C7: when black76_price returns a result, the call with the same five numbers
\* and the other option type returns a result with the same gamma and vega.
C7_GammaVegaSideIndependent ==
    (EngineCalled /\ outcome.kind = "return") =>
        SameGammaVega(outcome, EngineOn(OtherType))

\* a put was priced with a gamma and a vega that are not zero
C7_Witness ==
    /\ EngineCalled
    /\ args.option_type = Member(PUT)
    /\ outcome.kind = "return"
    /\ IsFinite(outcome.result.gamma) /\ ~IsZero(outcome.result.gamma)
    /\ IsFinite(outcome.result.vega) /\ ~IsZero(outcome.result.vega)

\* the five numbers of the call are valid: each is positive
ValidShared ==
    /\ flt(Zero, args.forward_price)
    /\ flt(Zero, args.strike)
    /\ flt(Zero, args.dcf)
    /\ flt(Zero, args.df)
    /\ flt(Zero, args.implied_volatility)

\* the tolerance of parity, relative to D * (F + K): floats carry 8 digits
Tolerance == Dec(1, -6)

\* call - put = D * (F - K) within the tolerance, c and p outcomes with results
Parity(c, p) ==
    /\ c.kind = "return"
    /\ p.kind = "return"
    /\ fle(fabs(fsub(fsub(c.result.price, p.result.price),
                     fmul(args.df, fsub(args.forward_price, args.strike)))),
           fmul(Tolerance, fmul(args.df, fadd(args.forward_price, args.strike))))

\* C8: when black76_price returns the price of a call on valid numbers, that
\* price minus the price it returns for the put on the same numbers is
\* D * (F - K), within a tolerance relative to D * (F + K).
C8_PutCallParity ==
    (/\ EngineCalled
     /\ ValidShared
     /\ lower(args.option_type.v) = CALL
     /\ outcome.kind = "return")
    => Parity(outcome, EngineOn(PUT))

\* a call was priced with forward and strike apart and a premium that is not zero
C8_Witness ==
    /\ EngineCalled
    /\ ValidShared
    /\ lower(args.option_type.v) = CALL
    /\ outcome.kind = "return"
    /\ ~feq(args.forward_price, args.strike)
    /\ IsFinite(outcome.result.price) /\ ~IsZero(outcome.result.price)

\* r is a whole multiple of 10^-n
IsMultiple(r, n) ==
    \/ r.m = 0
    \/ r.e - 7 >= -n
    \/ (7 - r.e - n <= 7 /\ r.m % 10^(7 - r.e - n) = 0)

\* r is v rounded to n decimals: a multiple of 10^-n at most half a unit from v
\* (v itself when v is infinite or NaN)
Rounded(r, v, n) ==
    IF ~IsFinite(v) THEN r = v
    ELSE /\ IsFinite(r)
         /\ IsMultiple(r, n)
         /\ fle(fabs(fsub(r, v)), Dec(5, -n - 1))

\* the success record r holds the roundings of the engine's result e and echoes
\* the forward and the strike of the call
RoundedFrom(r, e) ==
    /\ e.kind = "return"
    /\ Rounded(r.pricing.premium, e.result.price, 2)
    /\ Rounded(r.greeks.delta, e.result.delta, 4)
    /\ Rounded(r.greeks.gamma, e.result.gamma, 6)
    /\ Rounded(r.greeks.vega_per_1pct_usd, fmul(e.result.vega, Dec(100, 0)), 2)
    /\ r.inputs.forward = args.forward_price
    /\ r.inputs.strike = args.strike

\* C9: in a success response of price_option_black76 the premium is the engine's
\* price rounded to 2 decimals, delta its delta rounded to 4, gamma its gamma
\* rounded to 6, vega_per_1pct_usd its vega times 100 rounded to 2, and the
\* inputs are the forward and the strike of the call.
C9_RoundedAtSerialization ==
    (ToolCalled /\ outcome.kind = "return" /\ outcome.result.status = "success")
    => RoundedFrom(outcome.result, EngineOn(args.option_type))

\* a success response with a premium and a gamma that are not zero
C9_Witness ==
    /\ ToolCalled
    /\ outcome.kind = "return"
    /\ outcome.result.status = "success"
    /\ IsFinite(outcome.result.pricing.premium)
    /\ ~IsZero(outcome.result.pricing.premium)
    /\ ~IsZero(outcome.result.greeks.gamma)

\* the outcome of black76_price on each of the arguments, run alone
Alone ==
    [a \in ConcArgs |->
        black76_price(a.forward_price, a.strike, a.dcf, a.df, a.implied_volatility,
                      a.option_type)]

\* C10: whatever the interleaving of the invocations of black76_price, the
\* outcome a caller gets, result or error, is the outcome of black76_price on
\* the caller's own six arguments.
C10_OutcomeAsIfAlone ==
    \A c \in Callers : pc[c] = "done" => returned[c] = Alone[called[c]]

\* a caller has its result while another invocation, on other arguments, is
\* between its lines
C10_Witness ==
    \E c, d \in Callers :
        /\ c # d
        /\ pc[c] = "done"
        /\ returned[c].kind = "return"
        /\ pc[d] \in {"line100", "line102", "line105", "line107", "line113"}
        /\ called[c] # called[d]
====
